---------------------------- MODULE Spec2Model ----------------------------
(***************************************************************************)
(* Model of pennylane_alice_bob/device.py: AliceBobQubitDevice.            *)
(*                                                                         *)
(* Strings that the code inspects (backend names, the api key) are         *)
(* sequences of one-character strings, so that str.strip(), len() and      *)
(* case-sensitive == are computed and not assumed.  A backend handle is    *)
(* the symbolic value of the provider call that produced it; the log       *)
(* `calls` records every call the code makes to a collaborator, in order.  *)
(***************************************************************************)
EXTENDS Integers, Sequences, FiniteSets, TLC

VARIABLES pc, inp, provider, calls, result, prev, stubbed

vars == <<pc, inp, provider, calls, result, prev, stubbed>>

---------------------------------------------------------------------------
(* Bounds of the model *)
MaxNameLen == 2
MaxKeyLen == 2
MaxWires == 2
MaxShots == 2
MaxKwVal == 2

(* Defaults of the signature of __new__ *)
DefaultWires == 1
DefaultShots == 1024

Alphabet == {"a", "A", " "}
Whitespace == {" "}

SeqsUpTo(S, n) == UNION {[1..k -> S] : k \in 0..n}

Names == SeqsUpTo(Alphabet, MaxNameLen)
Keys == SeqsUpTo({"k"}, MaxKeyLen)
KwNames == {"kappa_1"}
KwArgs == UNION {[S -> 1..MaxKwVal] : S \in SUBSET KwNames}
NoKwArgs == << >>
Seeds == {"global", "s1"}
Workers == {"None", "w4"}
Wires == 1..MaxWires
Shots == (1..MaxShots) \cup {DefaultShots}

(* names of AliceBobLocalProvider().backends(), in catalog order *)
Catalog == << <<"a">>, <<"A", "a">> >>
DefaultName == <<"d", "e", "f", "a", "u", "l", "t">>

None == [kind |-> "None"]

---------------------------------------------------------------------------
(* str.strip() *)
RECURSIVE LStrip(_)
LStrip(s) ==
    IF s = << >> THEN s
    ELSE IF Head(s) \in Whitespace THEN LStrip(Tail(s)) ELSE s

RECURSIVE RStrip(_)
RStrip(s) ==
    IF s = << >> THEN s
    ELSE IF s[Len(s)] \in Whitespace THEN RStrip(SubSeq(s, 1, Len(s) - 1)) ELSE s

Strip(s) == RStrip(LStrip(s))

(* line 43: backend.strip() == element.name.strip() *)
Matches(backend, element) == Strip(backend) = Strip(element)

(* lines 42-43: index of the element at which the loop returns, 0 if none *)
RECURSIVE FirstMatchFrom(_, _)
FirstMatchFrom(backend, i) ==
    IF i > Len(Catalog) THEN 0
    ELSE IF Matches(backend, Catalog[i]) THEN i
    ELSE FirstMatchFrom(backend, i + 1)

FirstMatch(backend) == FirstMatchFrom(backend, 1)

(* variant: the credential test written as "non-empty" *)
UseRemoteNonEmpty(api_key) == Len(api_key) > 0

(* line 45 *)
UseRemote(api_key) == Len(api_key) > 1

(* line 46: AliceBobRemoteProvider(api_key).get_backend(backend, **kwargs) *)
RemoteGetBackend(api_key, backend, kwargs) ==
    [op |-> "get_backend", via |-> "remote", api_key |-> api_key,
     name |-> backend, kwargs |-> kwargs]

(* variant: the local lookup always asks for 'default' *)
LocalGetBackendDefault(backend, kwargs) ==
    [op |-> "get_backend", via |-> "local", api_key |-> << >>,
     name |-> DefaultName, kwargs |-> kwargs]

(* line 48: AliceBobLocalProvider().get_backend(backend, **kwargs) *)
LocalGetBackend(backend, kwargs) ==
    [op |-> "get_backend", via |-> "local", api_key |-> << >>,
     name |-> backend, kwargs |-> kwargs]

(* lines 44-48: the body of the loop on a match *)
MatchedCalls(backend, api_key, kwargs) ==
    << [op |-> "print", name |-> backend],
       IF UseRemote(api_key)
       THEN RemoteGetBackend(api_key, backend, kwargs)
       ELSE LocalGetBackend(backend, kwargs) >>

(* variant: the fallback without its warning *)
FallbackCallsSilent(backend, kwargs) ==
    << [op |-> "get_backend", via |-> "local", api_key |-> << >>,
        name |-> DefaultName, kwargs |-> kwargs] >>

(* lines 50-51: the fallback after the loop *)
FallbackCalls(backend, kwargs) ==
    << [op |-> "warn", name |-> backend],
       LocalGetBackend(DefaultName, kwargs) >>

(* variant: the fallback path computes the default backend but falls off  *)
(* the end of the function without returning it                            *)
ConfiguredBackendNoFallbackReturn(backend, api_key, kwargs) ==
    LET matched == << [op |-> "backends", via |-> "local"],
                      [op |-> "print", name |-> backend],
                      [op |-> "get_backend",
                       via |-> IF Len(api_key) > 1 THEN "remote" ELSE "local",
                       api_key |-> IF Len(api_key) > 1 THEN api_key ELSE << >>,
                       name |-> backend, kwargs |-> kwargs] >>
        missed == << [op |-> "backends", via |-> "local"],
                     [op |-> "warn", name |-> backend],
                     [op |-> "get_backend", via |-> "local", api_key |-> << >>,
                      name |-> DefaultName, kwargs |-> kwargs] >>
    IN IF \E i \in 1..Len(Catalog) : Strip(backend) = Strip(Catalog[i])
       THEN [calls |-> matched, ret |-> matched[3]]
       ELSE [calls |-> missed, ret |-> None]

(* lines 42-51: the calls configured_backend makes, and the call whose    *)
(* value it returns: on both paths the last one, a get_backend call        *)
ConfiguredBackend(backend, api_key, kwargs) ==
    LET made == << [op |-> "backends", via |-> "local"] >> \o
                ( IF FirstMatch(backend) # 0
                  THEN MatchedCalls(backend, api_key, kwargs)
                  ELSE FallbackCalls(backend, kwargs) )
    IN [calls |-> made, ret |-> made[Len(made)]]

(* the object a get_backend call evaluates to: the provider's backend for  *)
(* that call; n_qubits = 0 stands for "no configuration overlay attached"  *)
Handle(call) ==
    [kind |-> "handle", via |-> call.via, api_key |-> call.api_key,
     name |-> call.name, kwargs |-> call.kwargs, n_qubits |-> 0]

(* the values the expression returned by configured_backend can have: the  *)
(* provider's backend, or, with a provider double installed, also None;    *)
(* a path without a return statement yields None                           *)
Answers(ret) ==
    IF ret = None THEN {None}
    ELSE IF stubbed THEN {Handle(ret), None}
    ELSE {Handle(ret)}

(* variant: Stub.n_qubits bound to the default wire count *)
ConfigureDefaultWires(handle, wires) == [handle EXCEPT !.n_qubits = DefaultWires]

(* lines 70-76: class Stub / conf / provider.configuration = conf *)
Configure(handle, wires) == [handle EXCEPT !.n_qubits = wires]

(* variant: the resolver called without **kwargs *)
ResolverCallNoKwargs(args) ==
    [op |-> "configured_backend", name |-> args.alice_backend,
     api_key |-> args.api_token, kwargs |-> NoKwArgs]

(* line 68: self.configured_backend(alice_backend, api_token, **kwargs) *)
ResolverCall(args) ==
    [op |-> "configured_backend", name |-> args.alice_backend,
     api_key |-> args.api_token, kwargs |-> args.kwargs]

(* variant: max_workers forwarded to the device factory *)
DeviceCallWithWorkers(args, handle) ==
    [op |-> "qml.device", name |-> "qiskit.remote", wires |-> args.wires,
     backend |-> handle, shots |-> args.shots,
     kwargs |-> [max_workers |-> args.max_workers]]

(* variant: the factory called without shots, which then takes its default *)
DeviceCallDefaultShots(args, handle) ==
    [op |-> "qml.device", name |-> "qiskit.remote", wires |-> args.wires,
     backend |-> handle, shots |-> DefaultShots, kwargs |-> NoKwArgs]

(* line 82: qml.device('qiskit.remote', wires=wires, backend=provider, shots=shots) *)
DeviceCall(args, handle) ==
    [op |-> "qml.device", name |-> "qiskit.remote", wires |-> args.wires,
     backend |-> handle, shots |-> args.shots, kwargs |-> NoKwArgs]

(* line 79: " ".join(element.name for element in ...backends()) *)
RECURSIVE JoinFrom(_)
JoinFrom(i) ==
    IF i > Len(Catalog) THEN << >>
    ELSE IF i = Len(Catalog) THEN Catalog[i]
    ELSE Catalog[i] \o <<" ">> \o JoinFrom(i + 1)

BackendNames == JoinFrom(1)

---------------------------------------------------------------------------
Inputs ==
    [wires : Wires, shots : Shots, seed : Seeds, max_workers : Workers,
     alice_backend : Names, api_token : Keys, kwargs : KwArgs]

Defaults ==
    [wires |-> DefaultWires, shots |-> DefaultShots, seed |-> "global",
     max_workers |-> "None", alice_backend |-> Catalog[1],
     api_token |-> << >>, kwargs |-> NoKwArgs]

NoResult == [kind |-> "none"]
NoRun == [kind |-> "none"]

InitCommon ==
    /\ pc = "idle"
    /\ inp = Defaults
    /\ provider = None
    /\ calls = << >>
    /\ result = NoResult
    /\ prev = NoRun

Init == InitCommon /\ stubbed = FALSE

InitStubbed == InitCommon /\ stubbed = TRUE

(* line 53: a construction call AliceBobQubitDevice(...) *)
Call ==
    /\ pc = "idle"
    /\ \E i \in Inputs : inp' = i
    /\ pc' = "resolve"
    /\ provider' = None
    /\ calls' = << >>
    /\ result' = NoResult
    /\ prev' = NoRun
    /\ UNCHANGED stubbed

(* line 53 again: the same construction repeated with another seed and    *)
(* max_workers; the finished one is kept in prev                           *)
CallAgain ==
    /\ pc = "done"
    /\ \E s \in Seeds, w \in Workers :
          /\ <<s, w>> # <<inp.seed, inp.max_workers>>
          /\ inp' = [inp EXCEPT !.seed = s, !.max_workers = w]
    /\ pc' = "resolve"
    /\ provider' = None
    /\ calls' = << >>
    /\ result' = NoResult
    /\ prev' = [kind |-> "run", inp |-> inp, calls |-> calls, result |-> result]
    /\ UNCHANGED stubbed

(* line 68: provider = self.configured_backend(alice_backend, api_token, **kwargs) *)
Resolve ==
    /\ pc = "resolve"
    /\ LET call == ResolverCall(inp)
           cb == ConfiguredBackend(call.name, call.api_key, call.kwargs)
       IN /\ calls' = calls \o <<call>> \o cb.calls
          /\ \E h \in Answers(cb.ret) : provider' = h
    /\ pc' = "attach"
    /\ UNCHANGED <<inp, result, prev, stubbed>>

(* lines 70-76: provider.configuration = conf; on None the assignment     *)
(* raises AttributeError                                                   *)
Attach ==
    /\ pc = "attach"
    /\ IF provider = None
       THEN /\ result' = [kind |-> "raise", error |-> "AttributeError", msg |-> << >>]
            /\ pc' = "done"
            /\ UNCHANGED <<provider, calls>>
       ELSE /\ provider' = Configure(provider, inp.wires)
            /\ calls' = Append(calls, [op |-> "configuration", n_qubits |-> inp.wires])
            /\ pc' = "check"
            /\ UNCHANGED result
    /\ UNCHANGED <<inp, prev, stubbed>>

(* lines 78-80: if provider is None: raise DeviceError(...) *)
Check ==
    /\ pc = "check"
    /\ IF provider = None
       THEN /\ result' = [kind |-> "raise", error |-> "DeviceError", msg |-> BackendNames]
            /\ pc' = "done"
       ELSE /\ pc' = "factory"
            /\ UNCHANGED result
    /\ UNCHANGED <<inp, provider, calls, prev, stubbed>>

(* line 82: return qml.device(...) *)
Factory ==
    /\ pc = "factory"
    /\ LET call == DeviceCall(inp, provider)
       IN /\ calls' = Append(calls, call)
          /\ result' = [kind |-> "device", made_by |-> call]
    /\ pc' = "done"
    /\ UNCHANGED <<inp, provider, prev, stubbed>>

(* the call has returned or raised: its frame and locals are discarded *)
Return ==
    /\ pc = "done"
    /\ pc' = "idle"
    /\ inp' = Defaults
    /\ provider' = None
    /\ calls' = << >>
    /\ result' = NoResult
    /\ prev' = NoRun
    /\ UNCHANGED stubbed

Next == Call \/ CallAgain \/ Resolve \/ Attach \/ Check \/ Factory \/ Return

Spec == Init /\ [][Next]_vars

SpecStubbed == InitStubbed /\ [][Next]_vars

---------------------------------------------------------------------------
(* Vocabulary of the properties *)

(* configured_backend has returned to __new__ in the current construction *)
Resolved == pc \in {"attach", "check", "factory", "done"}

(* the name is, as given, the name of a catalog entry *)
InCatalog(name) == \E i \in 1..Len(Catalog) : Catalog[i] = name

(* the name equals a catalog name once both are trimmed *)
TrimmedInCatalog(name) == \E i \in 1..Len(Catalog) : Strip(Catalog[i]) = Strip(name)

CallsOf(op) == SelectSeq(calls, LAMBDA c : c.op = op)

GetBackendCalls == CallsOf("get_backend")

RemoteUsed == \E i \in 1..Len(GetBackendCalls) : GetBackendCalls[i].via = "remote"

(* the handle as the resolver returned it, before the overlay *)
Bare(handle) == [handle EXCEPT !.n_qubits = 0]

IndexOf(op) == CHOOSE i \in 1..Len(calls) : calls[i].op = op

(* C1: a name of the local catalog requested with no credential yields     *)
(* the handle of the local provider's get_backend, named as requested, and *)
(* the remote provider is not invoked                                      *)
C1_LocalForCatalogName ==
    (Resolved /\ InCatalog(inp.alice_backend) /\ inp.api_token = << >>) =>
        /\ Len(GetBackendCalls) = 1
        /\ GetBackendCalls[1].via = "local"
        /\ ~RemoteUsed
        /\ provider # None
        /\ Bare(provider) = Handle(GetBackendCalls[1])
        /\ provider.via = "local"
        /\ provider.name = inp.alice_backend

C1_Witness ==
    /\ pc = "done"
    /\ result.kind = "device"
    /\ inp.alice_backend = Catalog[2]
    /\ inp.api_token = << >>
    /\ result.made_by.backend.via = "local"

(* C2: a name of the local catalog requested with a credential longer than *)
(* one character yields the handle of the remote client built with that    *)
(* credential, no local get_backend is made; with a credential of length   *)
(* 0 or 1 the remote provider is never used, whatever the name             *)
C2_RemoteForLongCredential ==
    Resolved =>
        /\ (InCatalog(inp.alice_backend) /\ Len(inp.api_token) > 1) =>
              /\ Len(GetBackendCalls) = 1
              /\ GetBackendCalls[1].via = "remote"
              /\ GetBackendCalls[1].api_key = inp.api_token
              /\ GetBackendCalls[1].name = inp.alice_backend
              /\ provider # None
              /\ Bare(provider) = Handle(GetBackendCalls[1])
              /\ provider.via = "remote"
        /\ Len(inp.api_token) <= 1 => (~RemoteUsed /\ provider.via # "remote")

C2_Witness ==
    /\ pc = "done"
    /\ result.kind = "device"
    /\ inp.alice_backend = Catalog[1]
    /\ Len(inp.api_token) = 2
    /\ result.made_by.backend.via = "remote"

(* what C3 promises of a resolution: one warning naming the request, no    *)
(* remote call, no exception, the local provider's default backend         *)
FellBackToDefault ==
    /\ Len(CallsOf("warn")) = 1
    /\ CallsOf("warn")[1].name = inp.alice_backend
    /\ ~RemoteUsed
    /\ result.kind # "raise"
    /\ provider # None
    /\ Bare(provider) = Handle(LocalGetBackend(DefaultName, inp.kwargs))

(* C3 as stated: every name that is not a catalog name falls back to the   *)
(* default with one warning, for every credential                          *)
C3_AbsentNameFallsBack ==
    (Resolved /\ ~InCatalog(inp.alice_backend)) => FellBackToDefault

(* C3 amended: every name that equals no catalog name after trimming falls *)
(* back to the default with one warning, for every credential              *)
C3_UnmatchedNameFallsBack ==
    (Resolved /\ ~TrimmedInCatalog(inp.alice_backend)) => FellBackToDefault

C3_Witness ==
    /\ pc = "done"
    /\ result.kind = "device"
    /\ inp.alice_backend = <<"A">>
    /\ Len(inp.api_token) = 2
    /\ Len(CallsOf("warn")) = 1
    /\ result.made_by.backend.name = DefaultName

(* C4: on every resolution path the handle given to the device factory     *)
(* reports n_qubits equal to the wires argument of the construction        *)
C4_OverlayReportsWires ==
    \A i \in 1..Len(calls) :
        calls[i].op = "qml.device" =>
            /\ calls[i].backend # None
            /\ calls[i].backend.n_qubits = inp.wires
            /\ inp.wires >= 1

C4_Witness ==
    /\ pc = "done"
    /\ Len(CallsOf("qml.device")) = 1
    /\ inp.wires = MaxWires
    /\ ~TrimmedInCatalog(inp.alice_backend)
    /\ result.made_by.backend.n_qubits = MaxWires

(* C5: when the resolver yields None the construction ends in a            *)
(* DeviceError listing the catalog names and the factory is not called     *)
C5_NoneRaisesDeviceError ==
    (pc = "done" /\ provider = None) =>
        /\ result.kind = "raise"
        /\ result.error = "DeviceError"
        /\ result.msg = BackendNames
        /\ CallsOf("qml.device") = << >>

(* C6: the resolver returns a handle on every path, the construction never *)
(* takes the DeviceError branch and never ends without a device            *)
C6_ResolverNeverNone ==
    /\ Resolved => (provider # None /\ provider.kind = "handle")
    /\ result.kind # "raise"
    /\ pc = "done" => (result.kind = "device" /\ result.made_by.backend # None)

C6_Witness ==
    /\ pc = "done"
    /\ result.kind = "device"
    /\ ~TrimmedInCatalog(inp.alice_backend)
    /\ Len(inp.api_token) = 1

C8_DeviceFromOneFactoryCall ==
    pc = "done" =>
        /\ result.kind = "device"
        /\ Len(CallsOf("configured_backend")) = 1
        /\ Len(CallsOf("configuration")) = 1
        /\ Len(CallsOf("qml.device")) = 1
        /\ Len(GetBackendCalls) = 1
        /\ IndexOf("configured_backend") < IndexOf("configuration")
        /\ IndexOf("configuration") < IndexOf("qml.device")
        /\ IndexOf("qml.device") = Len(calls)
        /\ result.made_by = calls[Len(calls)]
        /\ result.made_by.name = "qiskit.remote"
        /\ result.made_by.wires = inp.wires
        /\ result.made_by.shots = inp.shots
        /\ result.made_by.backend = provider
        /\ Bare(result.made_by.backend) = Handle(GetBackendCalls[1])

C8_Witness ==
    /\ pc = "done"
    /\ result.kind = "device"
    /\ result.made_by.wires = MaxWires
    /\ result.made_by.shots = MaxShots
    /\ result.made_by.backend.via = "remote"

(* the first catalog entry whose trimmed name equals the trimmed request *)
FirstTrimmedEntry(name) ==
    CHOOSE i \in 1..Len(Catalog) :
        /\ Strip(Catalog[i]) = Strip(name)
        /\ \A j \in 1..(i - 1) : Strip(Catalog[j]) # Strip(name)

(* C9: a request that equals a catalog name after trimming, compared case  *)
(* sensitively, is resolved to that first matching catalog entry; any      *)
(* other request, one differing in letter case included, gets the default  *)
C9_TrimmedMatchResolvesToEntry ==
    Resolved =>
        /\ Len(GetBackendCalls) = 1
        /\ IF TrimmedInCatalog(inp.alice_backend)
           THEN GetBackendCalls[1].name = Catalog[FirstTrimmedEntry(inp.alice_backend)]
           ELSE GetBackendCalls[1].name = DefaultName

(* C10: on each path the keyword configuration reaches get_backend as      *)
(* given, and none of it is passed to the device factory                   *)
C10_KwargsForwardedVerbatim ==
    /\ Resolved =>
          /\ Len(GetBackendCalls) = 1
          /\ GetBackendCalls[1].kwargs = inp.kwargs
          /\ DOMAIN GetBackendCalls[1].kwargs = DOMAIN inp.kwargs
    /\ \A i \in 1..Len(calls) :
          calls[i].op = "qml.device" =>
              /\ calls[i].kwargs = NoKwArgs
              /\ calls[i].backend.kwargs = inp.kwargs

C10_Witness ==
    /\ pc = "done"
    /\ result.kind = "device"
    /\ inp.kwargs # NoKwArgs
    /\ inp.kwargs["kappa_1"] = MaxKwVal
    /\ ~TrimmedInCatalog(inp.alice_backend)
    /\ GetBackendCalls[1].kwargs = inp.kwargs

=============================================================================
